---- MODULE Spec2Model ----
(***************************************************************************)
(* nativegres: initialize() builds a psycopg2 ThreadedConnectionPool and   *)
(* returns query_factory; query_factory() turns an SQL text into a         *)
(* function `query` that borrows a connection, executes, fetches, commits  *)
(* or rolls back, puts the connection back and pipes the result.           *)
(*                                                                         *)
(* The model follows src/nativegres.py statement by statement.  Calls into *)
(* psycopg2 (pool, connection, cursor) are external: each one either       *)
(* returns or raises, and the model draws that outcome nondeterministically*)
(* from the outcomes the library can produce at that call.                 *)
(***************************************************************************)
EXTENDS Integers, Sequences, FiniteSets, TLC

\* ---- bounds of the model ------------------------------------------------
\* number of concurrent callers of the built query function
NInv == 2
\* largest minconn / maxconn handed to initialize()
MaxPool == 2

\* ---- module constants of nativegres.py ----------------------------------
\* Python's None is encoded as -1, a value no other constant uses
NULL == -1
SCALAR == 0
ROW == 1
ROWS == 2
NOTHING == NULL
Invs == 1..NInv
Conns == 1..MaxPool
\* the four kinds and one value (3) that is none of them
Kinds == {SCALAR, ROW, ROWS, NOTHING} \cup {ROWS + 1}

VARIABLES
    pool,       \* the ThreadedConnectionPool made by initialize()
    used,       \* connections the pool has handed out (its _used table)
    fn,         \* the closure made by query_factory(): returning/commit/pipe
    pc,         \* per caller: the statement of query() it stands before
    given,      \* per caller: <<len(args), len(kwargs)>> of the call
    arguments,  \* per caller: local `arguments` of query()
    conn,      \* per caller: local `conn` of query() (0: not yet bound)
    exc,        \* per caller: the exception in flight, or the one raised
    log,        \* per caller: the calls it made on pool and connection
    blocked,    \* per caller: did getconn() find the pool exhausted
    call        \* one invocation followed with its values (ValueSpec)

vars == <<pool, used, fn, pc, given, arguments, conn, exc, log, blocked, call>>

NoExc == [src |-> "none", kind |-> "none"]
\* kind "backend" is a psycopg2.Error, kind "other" any other Exception
Exc(src, kind) == [src |-> src, kind |-> kind]

Entry(op, c, r) == [op |-> op, conn |-> c, res |-> r]

Append1(i, e) == [log EXCEPT ![i] = Append(@, e)]

\* ---- initialize(minconn, maxconn, dsn) ----------------------------------
BoundsOk_ZeroMin(minconn, maxconn) == maxconn >= minconn /\ minconn >= 0

\* line 22: assert maxconn >= minconn > 0
BoundsOk(minconn, maxconn) == maxconn >= minconn /\ minconn > 0

\* lines 22-29: the assert, then the pool made with the two bounds; `args`
\* keeps what the caller passed
Initialize(minconn, maxconn) ==
    /\ pool.state = "none"
    /\ IF BoundsOk(minconn, maxconn)
         THEN pool' = [state |-> "ready", minconn |-> minconn,
                       maxconn |-> maxconn, args |-> <<minconn, maxconn>>]
         ELSE pool' = [state |-> "assert_failed", minconn |-> 0,
                       maxconn |-> 0, args |-> <<minconn, maxconn>>]
    /\ UNCHANGED <<used, fn, pc, given, arguments, conn, exc, log, blocked, call>>

\* ---- query_factory(sql, returning, default, commit, pipe) ---------------
KnownKind_Lazy(returning) == TRUE

\* lines 56-77: the if/elif chain that selects fetch
KnownKind(returning) ==
    \/ returning = SCALAR
    \/ returning = ROW
    \/ returning = ROWS
    \/ returning = NOTHING

QueryFactory(returning, commit, pipe) ==
    /\ pool.state = "ready"
    /\ fn.state = "none"
    /\ IF KnownKind(returning)
         THEN fn' = [state |-> "built", returning |-> returning,
                     commit |-> commit, pipe |-> pipe]
         ELSE fn' = [state |-> "value_error", returning |-> returning,
                     commit |-> commit, pipe |-> pipe]
    /\ UNCHANGED <<pool, used, pc, given, arguments, conn, exc, log, blocked, call>>

\* ---- query(*args, **kwargs) ---------------------------------------------
\* lines 80-86: which of args / kwargs becomes `arguments`
BindArguments(nargs, nkwargs) ==
    IF nargs > 0 THEN "args"
    ELSE IF nkwargs > 0 THEN "kwargs"
    ELSE "None"

BothGiven_Unchecked(nargs, nkwargs) == FALSE

\* line 81: if args and kwargs
BothGiven(nargs, nkwargs) == nargs > 0 /\ nkwargs > 0

\* lines 79-87: the call, up to the statement conn = _pool.getconn()
Call(i, nargs, nkwargs) ==
    /\ fn.state = "built"
    /\ pc[i] = "idle"
    /\ given' = [given EXCEPT ![i] = <<nargs, nkwargs>>]
    /\ IF BothGiven(nargs, nkwargs)
         THEN /\ pc' = [pc EXCEPT ![i] = "raised"]
              /\ exc' = [exc EXCEPT ![i] = Exc("call", "value_error")]
              /\ UNCHANGED arguments
         ELSE /\ pc' = [pc EXCEPT ![i] = "getconn"]
              /\ arguments' = [arguments EXCEPT ![i] = BindArguments(nargs, nkwargs)]
              /\ UNCHANGED exc
    /\ UNCHANGED <<pool, used, fn, conn, log, blocked, call>>

PoolHasRoom_OneMore == Cardinality(used) < pool.maxconn + 1

\* the pool hands out a connection only while fewer than maxconn are out
\* (lines 24-29: the pool is built with maxconn as its upper bound)
PoolHasRoom == Cardinality(used) < pool.maxconn

\* the connection the pool hands out now: an idle or newly opened one,
\* named by the lowest number not handed out; none when the pool is exhausted
Available ==
    IF PoolHasRoom /\ Conns \ used # {}
      THEN {c \in Conns \ used : \A d \in Conns \ used : c <= d}
      ELSE {}

\* line 88: conn = _pool.getconn() returns connection c
GetconnOk(i, c) ==
    /\ pc[i] = "getconn"
    /\ c \in Available
    /\ used' = used \cup {c}
    /\ conn' = [conn EXCEPT ![i] = c]
    /\ log' = Append1(i, Entry("getconn", c, "ok"))
    /\ pc' = [pc EXCEPT ![i] = "cursor"]
    /\ UNCHANGED <<pool, fn, given, arguments, exc, blocked, call>>

\* line 88: getconn() finds every connection handed out.  What the pool does
\* then is the library's choice, not query()'s: a blocking pool keeps the
\* caller waiting (this action, which only records that the caller met the
\* exhausted pool), psycopg2's ThreadedConnectionPool raises PoolError
\* (GetconnFail).  The model allows both.
GetconnWait(i) ==
    /\ pc[i] = "getconn"
    /\ Available = {}
    /\ blocked[i] = "no"
    /\ blocked' = [blocked EXCEPT ![i] = "exhausted"]
    /\ UNCHANGED <<pool, used, fn, pc, given, arguments, conn, exc, log, call>>

\* line 95: except psycopg2.Error
Catches(e) == e.kind = "backend"

OnRaise_NoFinally(e) == IF Catches(e) THEN "except" ELSE "raised"

\* lines 89-98: where control goes when a statement of the try body raises e
OnRaise(e) == IF Catches(e) THEN "except" ELSE "finally"

\* a statement of the try body raised e
Raise(i, e) ==
    /\ exc' = [exc EXCEPT ![i] = e]
    /\ pc' = [pc EXCEPT ![i] = OnRaise(e)]

GetconnFail_InsideTry(i) ==
    /\ pc[i] = "getconn"
    /\ Raise(i, Exc("getconn", "backend"))
    /\ UNCHANGED <<pool, used, fn, given, arguments, conn, log, blocked, call>>

\* line 88: getconn() raises (pool exhausted, or the connect failed); the
\* statement stands outside the try, so nothing of lines 89-100 runs
GetconnFail(i) ==
    /\ pc[i] = "getconn"
    /\ exc' = [exc EXCEPT ![i] = Exc("getconn", "backend")]
    /\ pc' = [pc EXCEPT ![i] = "raised"]
    /\ UNCHANGED <<pool, used, fn, given, arguments, conn, log, blocked, call>>

\* line 90: with conn.cursor() as cur
Cursor(i, r) ==
    /\ pc[i] = "cursor"
    /\ r \in {"ok", "backend"}
    /\ log' = Append1(i, Entry("cursor", conn[i], r))
    /\ IF r = "ok"
         THEN pc' = [pc EXCEPT ![i] = "execute"] /\ UNCHANGED exc
         ELSE Raise(i, Exc("cursor", r))
    /\ UNCHANGED <<pool, used, fn, given, arguments, conn, blocked, call>>

\* what cur.execute(sql, arguments) can do: return, raise a psycopg2.Error,
\* or, when arguments are bound into the sql, raise a TypeError/IndexError
ExecuteOutcomes(a) ==
    {"ok", "backend"} \cup (IF a # "None" THEN {"other"} ELSE {})

\* line 91: cur.execute(sql, arguments)
Execute(i, r) ==
    /\ pc[i] = "execute"
    /\ r \in ExecuteOutcomes(arguments[i])
    /\ log' = Append1(i, Entry("execute", conn[i], r))
    /\ IF r = "ok"
         THEN pc' = [pc EXCEPT ![i] = "fetch"] /\ UNCHANGED exc
         ELSE Raise(i, Exc("execute", r))
    /\ UNCHANGED <<pool, used, fn, given, arguments, conn, blocked, call>>

\* lines 56-75: what the selected fetch(cur) can do.  fetchone()/fetchall()
\* raise a psycopg2.Error (no result set); row[0] raises IndexError/KeyError
\* on a row without a column 0; the NOTHING fetch never touches the cursor
FetchOutcomes(returning) ==
    IF returning = SCALAR THEN {"ok", "backend", "other"}
    ELSE IF returning = ROW THEN {"ok", "backend"}
    ELSE IF returning = ROWS THEN {"ok", "backend"}
    ELSE {"ok"}

AfterFetch_AlwaysCommit(commit) == "commit"

AfterFetch_NeverCommit(commit) == "finally"

\* line 93: if commit
AfterFetch(commit) == IF commit THEN "commit" ELSE "finally"

\* line 92: res = fetch(cur)
Fetch(i, r) ==
    /\ pc[i] = "fetch"
    /\ r \in FetchOutcomes(fn.returning)
    /\ log' = Append1(i, Entry("fetch", conn[i], r))
    /\ IF r = "ok"
         THEN pc' = [pc EXCEPT ![i] = AfterFetch(fn.commit)] /\ UNCHANGED exc
         ELSE Raise(i, Exc("fetch", r))
    /\ UNCHANGED <<pool, used, fn, given, arguments, conn, blocked, call>>

\* line 94: conn.commit()
Commit(i, r) ==
    /\ pc[i] = "commit"
    /\ r \in {"ok", "backend"}
    /\ log' = Append1(i, Entry("commit", conn[i], r))
    /\ IF r = "ok"
         THEN pc' = [pc EXCEPT ![i] = "finally"] /\ UNCHANGED exc
         ELSE Raise(i, Exc("commit", r))
    /\ UNCHANGED <<pool, used, fn, given, arguments, conn, blocked, call>>

\* lines 96-97: the exception that leaves the except block: ex when
\* rollback() returned, the rollback's own error when it raised
AfterRollback(ex, r) == IF r = "ok" THEN ex ELSE Exc("rollback", r)

Rollback_FailureSkipsFinally(i, r) ==
    /\ pc[i] = "except"
    /\ r \in {"ok", "backend"}
    /\ log' = Append1(i, Entry("rollback", conn[i], r))
    /\ exc' = [exc EXCEPT ![i] = AfterRollback(exc[i], r)]
    /\ pc' = [pc EXCEPT ![i] = IF r = "ok" THEN "finally" ELSE "raised"]
    /\ UNCHANGED <<pool, used, fn, given, arguments, conn, blocked, call>>

\* lines 95-97: conn.rollback(); raise ex
Rollback(i, r) ==
    /\ pc[i] = "except"
    /\ r \in {"ok", "backend"}
    /\ log' = Append1(i, Entry("rollback", conn[i], r))
    /\ exc' = [exc EXCEPT ![i] = AfterRollback(exc[i], r)]
    /\ pc' = [pc EXCEPT ![i] = "finally"]
    /\ UNCHANGED <<pool, used, fn, given, arguments, conn, blocked, call>>

AfterFinally_Retry(e, pipe) ==
    IF e # NoExc THEN "getconn"
    ELSE IF pipe THEN "pipe"
    ELSE "returned"

AfterFinally_NeverPipe(e, pipe) ==
    IF e # NoExc THEN "raised" ELSE "returned"

AfterFinally_SwallowsError(e, pipe) ==
    IF pipe THEN "pipe" ELSE "returned"

AfterFinally_HandlerAfterRelease(e, pipe) ==
    IF e # NoExc /\ Catches(e) THEN "except"
    ELSE IF e # NoExc THEN "raised"
    ELSE IF pipe THEN "pipe"
    ELSE "returned"

\* lines 98-104: where control goes after the finally block
AfterFinally(e, pipe) ==
    IF e # NoExc THEN "raised"
    ELSE IF pipe THEN "pipe"
    ELSE "returned"

\* a release wakes the callers waiting in getconn()
Wake(b) == [j \in Invs |-> IF b[j] = "exhausted" THEN "released" ELSE b[j]]

Putconn_NothingReturned(i) ==
    /\ pc[i] = "finally"
    /\ log' = Append1(i, Entry("putconn", conn[i], "ok"))
    /\ pc' = [pc EXCEPT ![i] = AfterFinally(exc[i], fn.pipe)]
    /\ UNCHANGED <<pool, used, fn, given, arguments, conn, exc, blocked, call>>

\* lines 98-100: finally: _pool.putconn(conn)
Putconn(i) ==
    /\ pc[i] = "finally"
    /\ used' = used \ {conn[i]}
    /\ log' = Append1(i, Entry("putconn", conn[i], "ok"))
    /\ blocked' = Wake(blocked)
    /\ pc' = [pc EXCEPT ![i] = AfterFinally(exc[i], fn.pipe)]
    /\ UNCHANGED <<pool, fn, given, arguments, conn, exc, call>>

Pipe_InsideTry(i, r) ==
    /\ pc[i] = "pipe"
    /\ r \in {"ok", "other"}
    /\ IF r = "ok"
         THEN pc' = [pc EXCEPT ![i] = "returned"] /\ UNCHANGED exc
         ELSE Raise(i, Exc("pipe", r))
    /\ UNCHANGED <<pool, used, fn, given, arguments, conn, log, blocked, call>>

\* lines 101-102: return pipe(res)
Pipe(i, r) ==
    /\ pc[i] = "pipe"
    /\ r \in {"ok", "other"}
    /\ IF r = "ok"
         THEN pc' = [pc EXCEPT ![i] = "returned"] /\ UNCHANGED exc
         ELSE /\ pc' = [pc EXCEPT ![i] = "raised"]
              /\ exc' = [exc EXCEPT ![i] = Exc("pipe", r)]
    /\ UNCHANGED <<pool, used, fn, given, arguments, conn, log, blocked, call>>

Outcomes == {"ok", "backend", "other"}

\* ---- the values of one invocation ---------------------------------------
MaxRows == 2
MaxCols == 2

SeqsUpTo(S, n) == UNION {[1..k -> S] : k \in 0..n}

\* a Python value: a scalar (None included), one row, or a list of rows
Scalar(x) == [t |-> "scalar", v |-> <<<<x>>>>]
None == Scalar(NULL)
OneRow(row) == [t |-> "row", v |-> <<row>>]
RowList(rows) == [t |-> "rows", v |-> rows]
\* a local that is not bound yet
Unset == [t |-> "unset", v |-> <<>>]

\* the rows a statement can produce: each row has 0..MaxCols columns, a column
\* is SQL NULL (None) or a value
RowValues == SeqsUpTo({NULL, 5}, MaxCols)
ResultSets == SeqsUpTo(RowValues, MaxRows)
\* the cursor after execute(): result is FALSE when the statement returns no
\* result set (an INSERT without RETURNING)
Cursors == [result : {TRUE}, rows : ResultSets] \cup [result : {FALSE}, rows : {<<>>}]
Defaults == {None, Scalar(0)}

Result(out, val) == [out |-> out, val |-> val]

\* cur.fetchone(): psycopg2.ProgrammingError without a result set, None at
\* the end of the rows, else the next row
fetchone(cur) ==
    IF ~cur.result THEN [out |-> "backend", found |-> FALSE, row |-> <<>>]
    ELSE IF cur.rows = <<>> THEN [out |-> "ok", found |-> FALSE, row |-> <<>>]
    ELSE [out |-> "ok", found |-> TRUE, row |-> Head(cur.rows)]

\* cur.fetchall(): psycopg2.ProgrammingError without a result set
fetchall(cur) ==
    IF ~cur.result THEN Result("backend", Unset)
    ELSE Result("ok", RowList(cur.rows))

fetch_SCALAR_NoNullCheck(cur, default) ==
    LET r == fetchone(cur) IN
    IF r.out # "ok" THEN Result(r.out, Unset)
    ELSE IF ~r.found THEN Result("ok", default)
    ELSE IF r.row = <<>> THEN Result("other", Unset)
    ELSE Result("ok", Scalar(r.row[1]))

\* lines 57-62: row[0] of a row without columns raises IndexError
fetch_SCALAR(cur, default) ==
    LET r == fetchone(cur) IN
    IF r.out # "ok" THEN Result(r.out, Unset)
    ELSE IF ~r.found THEN Result("ok", default)
    ELSE IF r.row = <<>> THEN Result("other", Unset)
    ELSE IF r.row[1] = NULL THEN Result("ok", default)
    ELSE Result("ok", Scalar(r.row[1]))

\* lines 64-69
fetch_ROW(cur, default) ==
    LET r == fetchone(cur) IN
    IF r.out # "ok" THEN Result(r.out, Unset)
    ELSE IF ~r.found THEN Result("ok", default)
    ELSE Result("ok", OneRow(r.row))

\* lines 71-72
fetch_ROWS(cur) == fetchall(cur)

\* lines 74-75
fetch_NOTHING(cur) == Result("ok", None)

\* lines 56-75: the fetch selected when the query function is built
fetch(returning, default, cur) ==
    IF returning = SCALAR THEN fetch_SCALAR(cur, default)
    ELSE IF returning = ROW THEN fetch_ROW(cur, default)
    ELSE IF returning = ROWS THEN fetch_ROWS(cur)
    ELSE fetch_NOTHING(cur)

\* the caller's pipe: any function that is not the identity; this one keeps
\* its argument apart from every shaped result
Transform(x) ==
    [t |-> "piped", v |-> <<<<Len(x.v)>>>> \o x.v \o <<IF x.t = "scalar" THEN <<>> ELSE <<NULL>>>>]

NoCall ==
    [pc |-> "none", returning |-> NOTHING, default |-> None, commit |-> FALSE,
     pipe |-> FALSE, cur |-> [result |-> FALSE, rows |-> <<>>], res |-> Unset,
     exc |-> NoExc, piped |-> FALSE, ret |-> Unset]

mainvars == <<pool, used, fn, pc, given, arguments, conn, exc, log, blocked>>

VRaise(e) == call' = [call EXCEPT !.exc = e, !.pc = OnRaise(e)]

\* line 91: cur.execute(sql, arguments)
VExecute(r) ==
    /\ call.pc = "execute"
    /\ IF r = "ok" THEN call' = [call EXCEPT !.pc = "fetch"]
                   ELSE VRaise(Exc("execute", r))
    /\ UNCHANGED mainvars

\* line 92: res = fetch(cur)
VFetch ==
    /\ call.pc = "fetch"
    /\ LET f == fetch(call.returning, call.default, call.cur) IN
       IF f.out = "ok"
         THEN call' = [call EXCEPT !.res = f.val, !.pc = AfterFetch(call.commit)]
         ELSE VRaise(Exc("fetch", f.out))
    /\ UNCHANGED mainvars

\* lines 93-94: conn.commit()
VCommit(r) ==
    /\ call.pc = "commit"
    /\ r \in {"ok", "backend"}
    /\ IF r = "ok" THEN call' = [call EXCEPT !.pc = "finally"]
                   ELSE VRaise(Exc("commit", r))
    /\ UNCHANGED mainvars

\* lines 95-97: conn.rollback(); raise ex
VRollback(r) ==
    /\ call.pc = "except"
    /\ r \in {"ok", "backend"}
    /\ call' = [call EXCEPT !.exc = AfterRollback(call.exc, r), !.pc = "finally"]
    /\ UNCHANGED mainvars

\* lines 98-104: putconn, then `return res` when no pipe is declared
VPutconn ==
    /\ call.pc = "finally"
    /\ LET next == AfterFinally(call.exc, call.pipe) IN
       call' = [call EXCEPT !.pc = next,
                            !.ret = IF next = "returned" THEN call.res ELSE @]
    /\ UNCHANGED mainvars

\* line 102: return pipe(res)
VPipe(r) ==
    /\ call.pc = "pipe"
    /\ r \in {"ok", "other"}
    /\ IF r = "ok"
         THEN call' = [call EXCEPT !.pc = "returned", !.piped = TRUE,
                                   !.ret = Transform(call.res)]
         ELSE call' = [call EXCEPT !.pc = "raised", !.piped = TRUE,
                                   !.exc = Exc("pipe", r)]
    /\ UNCHANGED mainvars

MainInit ==
    /\ pool = [state |-> "none", minconn |-> 0, maxconn |-> 0, args |-> <<0, 0>>]
    /\ used = {}
    /\ fn = [state |-> "none", returning |-> NOTHING, commit |-> FALSE, pipe |-> FALSE]
    /\ pc = [i \in Invs |-> "idle"]
    /\ given = [i \in Invs |-> <<0, 0>>]
    /\ arguments = [i \in Invs |-> "None"]
    /\ conn = [i \in Invs |-> 0]
    /\ exc = [i \in Invs |-> NoExc]
    /\ log = [i \in Invs |-> <<>>]
    /\ blocked = [i \in Invs |-> "no"]

Init == MainInit /\ call = NoCall

Next ==
    \/ \E minconn \in 0..MaxPool, maxconn \in 0..MaxPool : Initialize(minconn, maxconn)
    \/ \E returning \in Kinds, commit \in BOOLEAN, pipe \in BOOLEAN :
           QueryFactory(returning, commit, pipe)
    \/ \E i \in Invs, nargs \in 0..1, nkwargs \in 0..1 : Call(i, nargs, nkwargs)
    \/ \E i \in Invs, c \in Conns : GetconnOk(i, c)
    \/ \E i \in Invs : GetconnWait(i)
    \/ \E i \in Invs : GetconnFail(i)
    \/ \E i \in Invs, r \in Outcomes : Cursor(i, r)
    \/ \E i \in Invs, r \in Outcomes : Execute(i, r)
    \/ \E i \in Invs, r \in Outcomes : Fetch(i, r)
    \/ \E i \in Invs, r \in Outcomes : Commit(i, r)
    \/ \E i \in Invs, r \in Outcomes : Rollback(i, r)
    \/ \E i \in Invs : Putconn(i)
    \/ \E i \in Invs, r \in Outcomes : Pipe(i, r)

Spec == Init /\ [][Next]_vars

\* ---- one invocation with its values: the query function was built with
\* (returning, default, commit, pipe), getconn() and cursor() returned, and
\* the statement produces the rows of call.cur
ValueInit ==
    /\ MainInit
    /\ call \in [pc : {"execute"}, returning : {SCALAR, ROW, ROWS, NOTHING},
                 default : Defaults, commit : BOOLEAN, pipe : BOOLEAN,
                 cur : Cursors, res : {Unset}, exc : {NoExc},
                 piped : {FALSE}, ret : {Unset}]

ValueNext ==
    \/ \E r \in Outcomes : VExecute(r)
    \/ VFetch
    \/ \E r \in Outcomes : VCommit(r)
    \/ \E r \in Outcomes : VRollback(r)
    \/ VPutconn
    \/ \E r \in Outcomes : VPipe(r)

ValueSpec == ValueInit /\ [][ValueNext]_vars

\* ---- what the log of a caller says ---------------------------------------
Count(i, op) == Cardinality({k \in DOMAIN log[i] : log[i][k].op = op})

Has(i, op, r) == \E k \in DOMAIN log[i] : log[i][k].op = op /\ log[i][k].res = r

\* some call of a precedes some call of b in the log of caller i
Before(i, a, b) ==
    \E ka, kb \in DOMAIN log[i] :
        log[i][ka].op = a /\ log[i][kb].op = b /\ ka < kb

\* caller i has a connection out of the pool
Held(i) == Count(i, "getconn") > Count(i, "putconn")

\* query() has returned to, or raised into, caller i
Done(i) == pc[i] \in {"returned", "raised"}

Holders == {i \in Invs : Held(i)}

AcquireCount == Cardinality({<<i, k>> \in Invs \X (1..8) :
                    k \in DOMAIN log[i] /\ log[i][k].op = "getconn"})

ReleaseCount == Cardinality({<<i, k>> \in Invs \X (1..8) :
                    k \in DOMAIN log[i] /\ log[i][k].op = "putconn"})

\* C1: every invocation that got a connection from the pool puts it back
\* exactly once on every exit path: never more releases than acquisitions,
\* equal numbers once the invocation has ended, the pool's handed-out set is
\* exactly the connections of the running holders, and when all invocations
\* have ended releaseCount = acquireCount and nothing is checked out.
C1_ReleaseExactlyOnce ==
    /\ \A i \in Invs :
         /\ Count(i, "getconn") <= 1
         /\ Count(i, "putconn") <= Count(i, "getconn")
         /\ Done(i) => Count(i, "putconn") = Count(i, "getconn")
    /\ used = {conn[i] : i \in Holders}
    /\ (\A i \in Invs : Done(i)) => (ReleaseCount = AcquireCount /\ used = {})

\* all invocations ended, each had a connection, one ended in a commit
\* error and one in an extraction error that is no psycopg2.Error
C1_Witness ==
    /\ \A i \in Invs : Done(i) /\ Count(i, "getconn") = 1
    /\ \E i \in Invs : Has(i, "commit", "backend")
    /\ \E i \in Invs : Has(i, "fetch", "other")

\* the statement failed in the backend: conn.cursor() or cur.execute()
\* raised a psycopg2.Error
ExecFailed(i) == Has(i, "cursor", "backend") \/ Has(i, "execute", "backend")

\* the error the backend raised there
ExecError(i) ==
    IF Has(i, "cursor", "backend") THEN Exc("cursor", "backend")
    ELSE Exc("execute", "backend")

\* C2: when cursor open or execute raises a backend error, the invocation
\* issues rollback exactly once, then releases exactly once, issues no
\* commit, and what then reaches the caller is the error the backend raised.
C2_ExecErrorReraisedUnchanged ==
    \A i \in Invs :
        (ExecFailed(i) /\ Done(i)) =>
            /\ Count(i, "rollback") = 1
            /\ Count(i, "putconn") = 1
            /\ Count(i, "commit") = 0
            /\ Before(i, "rollback", "putconn")
            /\ pc[i] = "raised"
            /\ exc[i] = ExecError(i)

\* C3: a failure of the extractor after a successful execute, of any kind,
\* is handled like an execution failure: rollback once, then release once,
\* then the failure reaches the caller.
C3_ExtractErrorRollsBack ==
    \A i \in Invs :
        ((Has(i, "fetch", "backend") \/ Has(i, "fetch", "other")) /\ Done(i)) =>
            /\ Count(i, "rollback") = 1
            /\ Count(i, "putconn") = 1
            /\ Before(i, "rollback", "putconn")
            /\ pc[i] = "raised"

\* C4 as stated: with commit true or false, a connection on which the
\* statement was executed is committed or rolled back before it is released.
C4_AlwaysCommitOrRollbackBeforeRelease ==
    \A i \in Invs :
        (Has(i, "execute", "ok") /\ Count(i, "putconn") > 0) =>
            (Before(i, "commit", "putconn") \/ Before(i, "rollback", "putconn"))

\* C4 amended: the calls of an invocation come in the order getconn, cursor,
\* execute, fetch, and nothing follows the release.  At the release of a
\* connection on which the statement was executed: with commit=true and a
\* successful extraction it was committed once before (and, when that commit
\* failed, rolled back once between commit and release, otherwise not rolled
\* back); after a backend error of the extraction it was rolled back once and
\* not committed; with commit=false and a successful extraction it is
\* released straight from EXECUTED, neither committed nor rolled back.
C4_CommitOrRollbackPerPolicy ==
    \A i \in Invs :
        /\ \A k \in DOMAIN log[i] :
             /\ (k = 1) <=> (log[i][k].op = "getconn")
             /\ (log[i][k].op = "cursor") => k = 2
             /\ (log[i][k].op = "execute") => k = 3
             /\ (log[i][k].op = "fetch") => k = 4
             /\ (log[i][k].op = "putconn") => k = Len(log[i])
        /\ (Has(i, "execute", "ok") /\ Count(i, "putconn") > 0) =>
             /\ (Has(i, "fetch", "ok") /\ fn.commit) =>
                  /\ Count(i, "commit") = 1
                  /\ Before(i, "commit", "putconn")
                  /\ Has(i, "commit", "ok") => Count(i, "rollback") = 0
                  /\ Has(i, "commit", "backend") =>
                       /\ Count(i, "rollback") = 1
                       /\ Before(i, "commit", "rollback")
                       /\ Before(i, "rollback", "putconn")
             /\ Has(i, "fetch", "backend") =>
                  /\ Count(i, "commit") = 0
                  /\ Count(i, "rollback") = 1
                  /\ Before(i, "rollback", "putconn")
             /\ (Has(i, "fetch", "ok") /\ ~fn.commit) =>
                  /\ Count(i, "commit") = 0
                  /\ Count(i, "rollback") = 0

\* one caller released after a successful commit, the other after a commit
\* that failed and was rolled back
C4_Witness ==
    /\ fn.commit
    /\ \E i \in Invs : Done(i) /\ Has(i, "commit", "ok")
    /\ \E i \in Invs : Done(i) /\ Has(i, "commit", "backend") /\ Has(i, "rollback", "ok")

\* the statement reached the backend: execute returned or the backend
\* answered it with an error
ReachedBackend(i) == Has(i, "execute", "ok") \/ Has(i, "execute", "backend")

\* commits that took effect
Committed(i) == Cardinality({k \in DOMAIN log[i] :
                    log[i][k].op = "commit" /\ log[i][k].res = "ok"})

\* C5: for a commit=true query whose statement reached the backend, the
\* invocation ends with exactly one commit or exactly one rollback, never
\* both and never neither (a commit that failed is followed by the one
\* rollback and is not counted as a commit).
C5_ExactlyOneCommitOrRollback ==
    \A i \in Invs :
        (fn.commit /\ ReachedBackend(i) /\ Done(i)) =>
            Committed(i) + Count(i, "rollback") = 1

\* C6: when the commit itself fails, the invocation rolls back, then
\* releases exactly once, and then the commit failure reaches the caller; it
\* never returns a value.
C6_CommitErrorRaisedAfterRollbackRelease ==
    \A i \in Invs :
        Has(i, "commit", "backend") =>
            /\ pc[i] \notin {"returned", "pipe"}
            /\ Done(i) =>
                 /\ Count(i, "rollback") = 1
                 /\ Count(i, "putconn") = 1
                 /\ Before(i, "commit", "rollback")
                 /\ Before(i, "rollback", "putconn")
                 /\ pc[i] = "raised"
                 /\ exc[i] = Exc("commit", "backend")

\* C7: with a pool of maxconn = k and any number of concurrent invocations,
\* at most k invocations hold a connection at any instant, and an invocation
\* that found the pool exhausted has its connection only after some other
\* invocation released one.
C7_AtMostMaxconnInUse ==
    /\ Cardinality(Holders) <= pool.maxconn
    /\ \A i \in Invs : Count(i, "getconn") > 0 => blocked[i] # "exhausted"

\* the pool is full again, one of the holders had found it exhausted and
\* got its connection after another invocation had released
C7_Witness ==
    /\ Cardinality(Holders) = pool.maxconn
    /\ \E i \in Holders : blocked[i] = "released"
    /\ \E j \in Invs : Count(j, "putconn") = 1

\* calls made on a connection
ConnOps == {"cursor", "execute", "fetch", "commit", "rollback"}

\* C8: no connection is held by two invocations at once, and every cursor /
\* execute / fetch / commit / rollback of an invocation is made on the
\* connection getconn() gave it, after that getconn() and before its
\* putconn().
C8_ExclusiveConnection ==
    /\ \A i, j \in Holders : i # j => conn[i] # conn[j]
    /\ \A i \in Invs : \A k \in DOMAIN log[i] :
         log[i][k].op \in ConnOps =>
             /\ \E g \in 1..(k - 1) :
                    log[i][g].op = "getconn" /\ log[i][g].conn = log[i][k].conn
             /\ \A q \in 1..(k - 1) : log[i][q].op # "putconn"

\* two invocations hold connections at once and both have executed on theirs
C8_Witness ==
    \E i, j \in Holders :
        /\ i # j
        /\ Has(i, "execute", "ok")
        /\ Has(j, "execute", "ok")

\* C9: a call with both positional and keyword arguments raises the
\* ValueError before getconn(): the invocation makes no call on pool or
\* connection, binds no connection, and the pool's handed-out set holds only
\* the connections of other invocations.
C9_BothArgumentsRejected ==
    \A i \in Invs :
        (given[i][1] > 0 /\ given[i][2] > 0) =>
            /\ pc[i] = "raised"
            /\ exc[i] = Exc("call", "value_error")
            /\ log[i] = <<>>
            /\ conn[i] = 0
            /\ \A c \in used : \E j \in Holders \ {i} : conn[j] = c

\* a call with both kinds of arguments was rejected while another invocation
\* holds a connection
C9_Witness ==
    \E i \in Invs :
        /\ given[i][1] > 0 /\ given[i][2] > 0
        /\ pc[i] = "raised"
        /\ Holders # {}

\* C10: when getconn() raises, the invocation makes no execute, commit,
\* rollback or putconn call and the pool's error reaches the caller as it
\* was raised.
C10_AcquireErrorPassesThrough ==
    \A i \in Invs :
        exc[i].src = "getconn" =>
            /\ pc[i] = "raised"
            /\ exc[i] = Exc("getconn", "backend")
            /\ log[i] = <<>>
            /\ conn[i] = 0

\* getconn() raised for one invocation while the pool was exhausted by the
\* others
C10_Witness ==
    \E i \in Invs :
        /\ exc[i].src = "getconn"
        /\ pc[i] = "raised"
        /\ pool.state = "ready"
        /\ Cardinality(Holders) = pool.maxconn

\* execute, then fetch, then commit: the calls of caller i come in that order
ExecuteFetchCommitOrder(i) ==
    \A ka, kb \in DOMAIN log[i] :
        \/ (log[i][ka].op = "execute" /\ log[i][kb].op = "fetch")
        \/ (log[i][ka].op = "execute" /\ log[i][kb].op = "commit")
        \/ (log[i][ka].op = "fetch" /\ log[i][kb].op = "commit")
        => ka < kb

\* C11 as stated: the calls come in the order execute, fetch, commit; an
\* ended invocation has issued commit if and only if the commit flag is true
\* and execute and fetch both succeeded, and then exactly once and with no
\* rollback; with commit=false no commit is ever issued.
C11_CommitIffFlagAndSuccessNoRollback ==
    \A i \in Invs :
        /\ ExecuteFetchCommitOrder(i)
        /\ ~fn.commit => Count(i, "commit") = 0
        /\ Count(i, "commit") > 0 =>
             /\ fn.commit /\ Has(i, "execute", "ok") /\ Has(i, "fetch", "ok")
             /\ Count(i, "commit") = 1
             /\ Count(i, "rollback") = 0
        /\ (Done(i) /\ fn.commit /\ Has(i, "execute", "ok") /\ Has(i, "fetch", "ok"))
             => Count(i, "commit") = 1

\* C11 amended: as stated, except that a commit which itself fails is
\* followed by exactly one rollback; a commit that returned is followed by
\* none.
C11_CommitIffFlagAndSuccess ==
    \A i \in Invs :
        /\ ExecuteFetchCommitOrder(i)
        /\ ~fn.commit => Count(i, "commit") = 0
        /\ Count(i, "commit") > 0 =>
             /\ fn.commit /\ Has(i, "execute", "ok") /\ Has(i, "fetch", "ok")
             /\ Count(i, "commit") = 1
             /\ Has(i, "commit", "ok") => Count(i, "rollback") = 0
             /\ (Has(i, "commit", "backend") /\ Done(i)) =>
                  (Count(i, "rollback") = 1 /\ Before(i, "commit", "rollback"))
        /\ (Done(i) /\ fn.commit /\ Has(i, "execute", "ok") /\ Has(i, "fetch", "ok"))
             => Count(i, "commit") = 1

\* one invocation returned after execute, fetch and a commit that returned;
\* another ended after an execute error without any commit
C11_Witness ==
    /\ \E i \in Invs : pc[i] = "returned" /\ Has(i, "commit", "ok")
    /\ \E i \in Invs : Done(i) /\ Has(i, "execute", "backend") /\ Count(i, "commit") = 0

\* ---- progress -------------------------------------------------------------
\* the steps of caller i between getconn() returning and the end of query():
\* each is a call into the pool, the connection or pipe that returns or raises
Progress(i) ==
    \/ \E c \in Conns : GetconnOk(i, c)
    \/ \E r \in Outcomes : Cursor(i, r)
    \/ \E r \in Outcomes : Execute(i, r)
    \/ \E r \in Outcomes : Fetch(i, r)
    \/ \E r \in Outcomes : Commit(i, r)
    \/ \E r \in Outcomes : Rollback(i, r)
    \/ Putconn(i)
    \/ \E r \in Outcomes : Pipe(i, r)

\* every call a caller makes returns or raises, and a pool with a free
\* connection serves a waiting caller
LiveSpec == Spec /\ \A i \in Invs : WF_vars(Progress(i))

\* C12: every invocation that was called ends, in exactly one of the two
\* outcomes: returned with no error, or raised with an error; and when it
\* ends, an invocation that had acquired a connection has released it (as
\* many putconn as getconn calls).
C12_ReleasedAndOneOutcome ==
    \A i \in Invs :
        (pc[i] # "idle") ~>
            /\ Done(i)
            /\ Count(i, "putconn") = Count(i, "getconn")
            /\ (pc[i] = "returned") <=> (exc[i] = NoExc)

\* every caller has ended, one returned and one raised after its release
C12_Witness ==
    /\ \A i \in Invs : Done(i) /\ Count(i, "putconn") = 1
    /\ \E i \in Invs : pc[i] = "returned"
    /\ \E i \in Invs : pc[i] = "raised"

Reference(returning, default, rows) ==
    CASE returning = NOTHING -> None
      [] returning = SCALAR ->
            IF rows = <<>> THEN default
            ELSE IF rows[1][1] = NULL THEN default
            ELSE Scalar(rows[1][1])
      [] returning = ROW -> IF rows = <<>> THEN default ELSE OneRow(rows[1])
      [] returning = ROWS -> RowList(rows)

\* C14: whatever the result kind, the default, the commit flag and the rows
\* in the cursor, the shaped result of an invocation whose extraction
\* succeeded equals what the reference extractor computes from the same
\* inputs
C14_ShapedResultMatchesReference ==
    call.res # Unset =>
        call.res = Reference(call.returning, call.default, call.cur.rows)

C14_Witness ==
    /\ call.pc = "returned"
    /\ call.returning = SCALAR
    /\ Len(call.cur.rows) = MaxRows
    /\ Len(call.cur.rows[1]) = MaxCols
    /\ call.cur.rows[1][1] = NULL
    /\ call.cur.rows[1][2] # NULL
    /\ call.default # None
    /\ call.res = call.default

\* C15: a successful invocation returns transform(shaped result) when a
\* transform is declared and the shaped result itself when none is, also
\* when the shaped result is the default or the absent value; the transform
\* is never called without being declared nor after an error of the
\* transaction
C15_ReturnsTransformedOrShaped ==
    /\ call.pc = "returned" =>
           /\ call.exc = NoExc
           /\ call.res # Unset
           /\ call.ret = IF call.pipe THEN Transform(call.res) ELSE call.res
           /\ call.piped = call.pipe
    /\ call.piped => call.pipe /\ call.exc.src \in {"none", "pipe"}
    /\ call.pc = "raised" => call.ret = Unset

C15_Witness ==
    /\ call.pc = "returned"
    /\ call.pipe
    /\ call.returning = ROW
    /\ call.cur.rows = <<>>
    /\ call.res = call.default
    /\ call.ret = Transform(call.default)
    /\ call.ret # call.res

\* C16: an invocation calls getconn() at most once and never has more than
\* one connection; its cursor, execute, fetch, commit and rollback calls are
\* all made on the connection getconn() returned, and it has that connection
\* from the acquisition, its first call, until the release, its last and
\* only one: while it stands inside the try block the pool counts the
\* connection as handed out to it
C16_OneAcquireOneConnection ==
    \A i \in Invs :
        /\ Count(i, "getconn") <= 1
        /\ Cardinality({log[i][k].conn : k \in DOMAIN log[i]}) <= 1
        /\ \A k \in DOMAIN log[i] :
             /\ log[i][k].conn = conn[i]
             /\ (log[i][k].op = "getconn") <=> (k = 1)
             /\ (log[i][k].op = "putconn") => (k = Len(log[i]) /\ k > 1)
        /\ pc[i] \in {"cursor", "execute", "fetch", "commit", "except", "finally"} =>
             /\ Held(i)
             /\ conn[i] \in used
        /\ Count(i, "putconn") <= 1

\* an invocation on the second connection ran cursor, execute, fetch, a
\* failed commit and the rollback, and released
C16_Witness ==
    \E i \in Invs :
        /\ Done(i)
        /\ conn[i] = MaxPool
        /\ Has(i, "commit", "backend")
        /\ Has(i, "rollback", "ok")
        /\ Count(i, "putconn") = 1
        /\ Len(log[i]) = 7

\* C17: query_factory called with a returning value that is none of SCALAR,
\* ROW, ROWS, NOTHING raises its ValueError while building: no query
\* function exists afterwards, so no invocation starts, nothing is called on
\* the pool or a connection and no connection is handed out; whenever an
\* invocation has started, the function was built with one of the four kinds
C17_UnknownKindFailsAtBuild ==
    /\ fn.returning \notin {SCALAR, ROW, ROWS, NOTHING} =>
           /\ fn.state = "value_error"
           /\ used = {}
           /\ \A i \in Invs : pc[i] = "idle" /\ log[i] = <<>> /\ conn[i] = 0
    /\ \A i \in Invs :
           pc[i] # "idle" =>
               fn.state = "built" /\ fn.returning \in {SCALAR, ROW, ROWS, NOTHING}

\* query_factory was called on a ready pool with the kind 3
C17_Witness ==
    /\ pool.state = "ready"
    /\ fn.state = "value_error"
    /\ fn.returning = ROWS + 1

\* C18: initialize called with bounds that break 0 < minconn <= maxconn
\* fails at the assert: no pool is made, no query_factory exists, nothing is
\* handed out and no invocation starts; called with bounds that satisfy it,
\* the pool is made with exactly the two bounds passed
C18_BadBoundsFailBeforePool ==
    /\ ~(0 < pool.args[1] /\ pool.args[1] <= pool.args[2]) =>
           /\ pool.state \in {"none", "assert_failed"}
           /\ pool.minconn = 0 /\ pool.maxconn = 0
           /\ fn.state = "none"
           /\ used = {}
           /\ \A i \in Invs : pc[i] = "idle" /\ log[i] = <<>>
    /\ pool.state = "assert_failed" =>
           ~(0 < pool.args[1] /\ pool.args[1] <= pool.args[2])
    /\ pool.state = "ready" =>
           /\ 0 < pool.args[1] /\ pool.args[1] <= pool.args[2]
           /\ pool.minconn = pool.args[1]
           /\ pool.maxconn = pool.args[2]

\* initialize was called with minconn above maxconn, both positive
C18_Witness ==
    /\ pool.state = "assert_failed"
    /\ pool.args[2] > 0
    /\ pool.args[1] > pool.args[2]

\* C19: pipe(res) runs only after putconn, hence after the commit when one
\* is due: an invocation that stands at the pipe, or whose pipe raised, has
\* no connection, released once as its last call and committed if the
\* commit flag is set; the pipe's error ends the invocation raised, with no
\* rollback, no further release and the commit still in place
C19_PipeAfterReleaseNoRollback ==
    \A i \in Invs :
        (pc[i] = "pipe" \/ exc[i].src = "pipe") =>
            /\ fn.pipe
            /\ ~Held(i)
            /\ Count(i, "putconn") = 1
            /\ log[i][Len(log[i])].op = "putconn"
            /\ Count(i, "rollback") = 0
            /\ Count(i, "commit") = (IF fn.commit THEN 1 ELSE 0)
            /\ fn.commit => Has(i, "commit", "ok") /\ Before(i, "commit", "putconn")
            /\ exc[i].src = "pipe" => pc[i] = "raised"
            /\ pc[i] = "pipe" => exc[i] = NoExc

\* the pipe of a committed invocation raised
C19_Witness ==
    \E i \in Invs :
        /\ exc[i].src = "pipe"
        /\ pc[i] = "raised"
        /\ Has(i, "commit", "ok")

\* C20: when conn.rollback() itself raises in the handler, the finally
\* block still runs: the invocation stands before putconn, which can be
\* taken, or it has ended raised with its connection released exactly once;
\* it never reaches the pipe nor returns a value
C20_FailedRollbackStillReleases ==
    \A i \in Invs :
        Has(i, "rollback", "backend") =>
            /\ Count(i, "rollback") = 1
            /\ exc[i] = Exc("rollback", "backend")
            /\ pc[i] \in {"finally", "raised"}
            /\ pc[i] = "finally" => Held(i) /\ conn[i] \in used /\ ENABLED Putconn(i)
            /\ pc[i] = "raised" =>
                   /\ Count(i, "putconn") = 1
                   /\ ~Held(i)
                   /\ log[i][Len(log[i])].op = "putconn"

\* a rollback after a failed execute failed too, and the invocation ended
C20_Witness ==
    \E i \in Invs :
        /\ Has(i, "execute", "backend")
        /\ Has(i, "rollback", "backend")
        /\ pc[i] = "raised"
        /\ Count(i, "putconn") = 1

====
